---- MODULE Spec2Model ----
(***************************************************************************)
(* Model of preprocess_html.py: the corpus walker (gather_files), the     *)
(* document normalizer (clean_html, extract_metadata), the per-document   *)
(* pipeline (process_file), the batch loop (main) and the text splitter   *)
(* that main builds and process_file calls.                                *)
(*                                                                         *)
(* The splitter is langchain_text_splitters.RecursiveCharacterTextSplitter *)
(* as main constructs it: chunk_size and chunk_overlap from the command   *)
(* line, everything else at the library's defaults (separators "\n\n",    *)
(* "\n", " ", ""; keep_separator = True; strip_whitespace = True; length   *)
(* in characters). Its algorithm is the library's, not this file's.       *)
(*                                                                         *)
(* HTML parsing is not modelled: a document is the text get_text yields   *)
(* for it and the elements extract_metadata looks up.                     *)
(*                                                                         *)
(* A string is a sequence of one-character strings.                        *)
(***************************************************************************)
EXTENDS Integers, Sequences, FiniteSets, TLC

\* ------------------------------------------------------------------ bounds
\* Longest text and largest chunk size given to the splitter on its own.
MaxTextLen == 5
MaxChunkSize == 3
\* Most input paths on a command line.
MaxArgs == 2
\* Most documents a modelled run discovers, their longest content, and the
\* largest chunk size and overlap of a run.
MaxDocs == 2
MaxRawLen == 2
MaxRunChunk == 2

\* --------------------------------------------------------- string helpers
Whitespace == {" ", "\n", "\t"}

RECURSIVE Concat(_)
\* "".join(docs): the concatenation of a sequence of strings.
Concat(ss) == IF ss = <<>> THEN <<>> ELSE Head(ss) \o Concat(Tail(ss))

RECURSIVE LStrip(_)
LStrip(s) == IF s # <<>> /\ Head(s) \in Whitespace THEN LStrip(Tail(s)) ELSE s

RECURSIVE RStrip(_)
RStrip(s) ==
    IF s # <<>> /\ s[Len(s)] \in Whitespace THEN RStrip(SubSeq(s, 1, Len(s) - 1)) ELSE s

\* str.strip(): leading and trailing whitespace removed.
Strip(s) == RStrip(LStrip(s))

\* s[i:] starts with sep (i is 1-based).
StartsWithAt(s, sep, i) ==
    /\ i + Len(sep) - 1 <= Len(s)
    /\ SubSeq(s, i, i + Len(sep) - 1) = sep

\* re.search(re.escape(sep), s) for a non-empty literal sep.
Occurs(sep, s) == \E i \in 1..Len(s) : StartsWithAt(s, sep, i)

RECURSIVE ReSplit(_, _, _)
\* re.split("(" + sep + ")", s) without the separator items: the texts between
\* the leftmost non-overlapping occurrences of sep, scanning s with acc the
\* text gathered since the last occurrence.
ReSplit(s, sep, acc) ==
    IF s = <<>> THEN <<acc>>
    ELSE IF StartsWithAt(s, sep, 1)
         THEN <<acc>> \o ReSplit(SubSeq(s, Len(sep) + 1, Len(s)), sep, <<>>)
         ELSE ReSplit(Tail(s), sep, Append(acc, Head(s)))

\* ------------------------------------------------------------ the splitter
\* The separators of a RecursiveCharacterTextSplitter built without a
\* separators argument: "\n\n", "\n", " ", "".
Separators == << <<"\n", "\n">>, <<"\n">>, <<" ">>, <<>> >>

\* A faulty variant: the fragment before the first separator is left out.
split_text_with_regex_no_first(text, separator) ==
    LET parts == ReSplit(text, separator, <<>>)
        splits == IF separator = <<>>
                  THEN [i \in 1..Len(text) |-> <<text[i]>>]
                  ELSE [i \in 1..(Len(parts) - 1) |-> separator \o parts[i + 1]]
    IN  SelectSeq(splits, LAMBDA f : f # <<>>)

\* _split_text_with_regex(text, separator, keep_separator = True): every
\* fragment but the first carries its separator in front; the empty separator
\* gives the characters; empty fragments are dropped.
split_text_with_regex(text, separator) ==
    LET parts == ReSplit(text, separator, <<>>)
        splits == IF separator = <<>>
                  THEN [i \in 1..Len(text) |-> <<text[i]>>]
                  ELSE [i \in 1..Len(parts) |->
                            IF i = 1 THEN parts[1] ELSE separator \o parts[i]]
    IN  SelectSeq(splits, LAMBDA f : f # <<>>)

\* _join_docs(docs, separator = "") with strip_whitespace: the stripped
\* concatenation, <<>> standing for None when nothing is left.
join_docs(docs) == Strip(Concat(docs))

\* docs.append(doc) if doc is not None.
AddDoc(docs, doc) == IF doc = <<>> THEN docs ELSE Append(docs, doc)

RECURSIVE PopOverlapAll(_, _, _, _, _)
\* A faulty variant: the loop empties current_doc, keeping no overlap.
PopOverlapAll(current, total, len, size, overlap) ==
    IF total > 0
    THEN PopOverlapAll(Tail(current), total - Len(Head(current)), len, size, overlap)
    ELSE [current |-> current, total |-> total]

RECURSIVE PopOverlap(_, _, _, _, _)
\* The while loop of _merge_splits: drop fragments from the front of
\* current_doc while it is longer than the overlap, or while the next
\* fragment still does not fit.
PopOverlap(current, total, len, size, overlap) ==
    IF total > overlap \/ (total + len > size /\ total > 0)
    THEN PopOverlap(Tail(current), total - Len(Head(current)), len, size, overlap)
    ELSE [current |-> current, total |-> total]

RECURSIVE MergeLoopEarly(_, _, _, _, _, _)
\* A faulty variant: a chunk is closed when the next fragment fills it exactly (>= for >).
MergeLoopEarly(splits, i, docs, current, total, cfg) ==
    IF i > Len(splits) THEN AddDoc(docs, join_docs(current))
    ELSE LET d == splits[i]
             full == total + Len(d) >= cfg.size
             flush == full /\ Len(current) > 0
             docs1 == IF flush THEN AddDoc(docs, join_docs(current)) ELSE docs
             kept == IF flush
                     THEN PopOverlap(current, total, Len(d), cfg.size, cfg.overlap)
                     ELSE [current |-> current, total |-> total]
         IN  MergeLoopEarly(splits, i + 1, docs1, Append(kept.current, d),
                            kept.total + Len(d), cfg)

RECURSIVE MergeLoop(_, _, _, _, _, _)
\* The for loop of _merge_splits over splits[i..], the joiner being empty
\* (keep_separator), so separator_len = 0.
MergeLoop(splits, i, docs, current, total, cfg) ==
    IF i > Len(splits) THEN AddDoc(docs, join_docs(current))
    ELSE LET d == splits[i]
             full == total + Len(d) > cfg.size
             flush == full /\ Len(current) > 0
             docs1 == IF flush THEN AddDoc(docs, join_docs(current)) ELSE docs
             kept == IF flush
                     THEN PopOverlap(current, total, Len(d), cfg.size, cfg.overlap)
                     ELSE [current |-> current, total |-> total]
         IN  MergeLoop(splits, i + 1, docs1, Append(kept.current, d),
                       kept.total + Len(d), cfg)

\* _merge_splits(splits, separator = "").
merge_splits(splits, cfg) == MergeLoop(splits, 1, <<>>, <<>>, 0, cfg)

\* The index of the separator _split_text selects: the first one that is
\* empty or occurs in the text.
RECURSIVE PickSeparator(_, _, _)
PickSeparator(text, separators, i) ==
    IF i >= Len(separators) THEN Len(separators)
    ELSE IF separators[i] = <<>> \/ Occurs(separators[i], text) THEN i
    ELSE PickSeparator(text, separators, i + 1)

RECURSIVE split_text_rec(_, _, _)
RECURSIVE SplitLoop(_, _, _, _, _, _)
\* The for loop of _split_text over splits[i..]: good collects the fragments
\* shorter than chunk_size, a longer fragment is split with the remaining
\* separators, or taken whole when there are none.
SplitLoop(splits, i, good, final, rest, cfg) ==
    IF i > Len(splits)
    THEN IF good # <<>> THEN final \o merge_splits(good, cfg) ELSE final
    ELSE LET s == splits[i]
         IN  IF Len(s) < cfg.size
             THEN SplitLoop(splits, i + 1, Append(good, s), final, rest, cfg)
             ELSE LET final1 == IF good # <<>> THEN final \o merge_splits(good, cfg)
                                ELSE final
                      sub == IF rest = <<>> THEN <<s>> ELSE split_text_rec(s, rest, cfg)
                  IN  SplitLoop(splits, i + 1, <<>>, final1 \o sub, rest, cfg)

\* _split_text(text, separators).
split_text_rec(text, separators, cfg) ==
    LET k == PickSeparator(text, separators, 1)
        separator == separators[k]
        rest == IF separator = <<>> THEN <<>>
                ELSE SubSeq(separators, k + 1, Len(separators))
    IN  SplitLoop(split_text_with_regex(text, separator), 1, <<>>, <<>>, rest, cfg)

\* splitter.split_text(text) of the splitter main builds.
split_text(text, cfg) == split_text_rec(text, Separators, cfg)

\* TextSplitter.__init__: the constructor raises when the overlap is larger
\* than the chunk size.
SplitterRejects(cfg) == cfg.overlap > cfg.size

\* ---------------------------------------------------------------- inputs
Alphabet == {"a", "b", " ", "\n", "\t"}

RECURSIVE StringsUpTo(_, _)
StringsUpTo(chars, n) ==
    IF n = 0 THEN {<<>>}
    ELSE LET shorter == StringsUpTo(chars, n - 1)
         IN  shorter \cup {Append(s, c) : s \in shorter, c \in chars}

ValidConfigs ==
    {c \in [size : 1..MaxChunkSize, overlap : 0..MaxChunkSize] : c.size > c.overlap}

\* ------------------------------------------------------------ file system
\* Paths are strings; the modelled tree has the directories d and d/s, the
\* files below, and no entry called x.
P_d == <<"d">>
P_ds == <<"d", "/", "s">>
P_x == <<"x">>
F_a == <<"d", "/", "a", ".", "h", "t", "m", "l">>
F_B == <<"d", "/", "B", ".", "H", "T", "M">>
F_c == <<"d", "/", "c", ".", "t", "x", "t">>
F_h == <<"d", "/", "h", "t", "m", "l">>
F_e == <<"d", "/", "s", "/", "e", ".", "h", "t", "m">>
F_g == <<"g", ".", "t", "x", "t">>

Dirs == {P_d, P_ds}
FileUniverse == {F_a, F_B, F_c, F_h, F_e, F_g}
ArgUniverse == {P_d, P_ds, P_x, F_a, F_g}

\* ord(c) of the characters paths are made of.
Ord(c) ==
    CASE c = "." -> 46 [] c = "/" -> 47
      [] c = "B" -> 66 [] c = "H" -> 72 [] c = "M" -> 77 [] c = "T" -> 84
      [] c = "a" -> 97 [] c = "b" -> 98 [] c = "c" -> 99 [] c = "d" -> 100
      [] c = "e" -> 101 [] c = "g" -> 103 [] c = "h" -> 104 [] c = "l" -> 108
      [] c = "m" -> 109 [] c = "s" -> 115 [] c = "t" -> 116 [] c = "x" -> 120

\* str.lower(), character by character.
LowerChar(c) ==
    CASE c = "B" -> "b" [] c = "H" -> "h" [] c = "M" -> "m" [] c = "T" -> "t"
      [] OTHER -> c

Lower(s) == [i \in 1..Len(s) |-> LowerChar(s[i])]

EndsWith(s, suffix) ==
    Len(s) >= Len(suffix) /\ SubSeq(s, Len(s) - Len(suffix) + 1, Len(s)) = suffix

RECURSIVE StrLess(_, _)
\* s < t for Python strings: code points compared left to right, a proper
\* prefix being smaller.
StrLess(s, t) ==
    IF t = <<>> THEN FALSE
    ELSE IF s = <<>> THEN TRUE
    ELSE IF Head(s) = Head(t) THEN StrLess(Tail(s), Tail(t))
    ELSE Ord(Head(s)) < Ord(Head(t))

\* The position of the last "/" of a path, 0 when there is none.
LastSlash(p) ==
    LET at == {i \in 1..Len(p) : p[i] = "/"}
    IN  IF at = {} THEN 0 ELSE CHOOSE i \in at : \A j \in at : j <= i

\* os.path.basename(path).
Basename(p) == SubSeq(p, LastSlash(p) + 1, Len(p))

\* The directory a file is an entry of ("" for a file of the working directory).
Dirname(p) == SubSeq(p, 1, LastSlash(p) - 1)

\* os.path.join(root, name).
PathJoin(root, name) == root \o <<"/">> \o name

RECURSIVE SetToSeq(_)
\* The elements of a set in the order a directory listing happens to give.
SetToSeq(S) ==
    IF S = {} THEN <<>>
    ELSE LET x == CHOOSE y \in S : TRUE IN <<x>> \o SetToSeq(S \ {x})

RECURSIVE Insert(_, _)
Insert(sorted, x) ==
    IF sorted = <<>> THEN <<x>>
    ELSE IF StrLess(x, Head(sorted)) THEN <<x>> \o sorted
    ELSE <<Head(sorted)>> \o Insert(Tail(sorted), x)

RECURSIVE Sorted(_)
\* sorted(files).
Sorted(xs) == IF xs = <<>> THEN <<>> ELSE Insert(Sorted(Tail(xs)), Head(xs))

\* A faulty variant: the extension is compared without lowering the name.
IsMarkupNameCased(name) ==
    \/ EndsWith(name, <<".", "h", "t", "m", "l">>)
    \/ EndsWith(name, <<".", "h", "t", "m">>)

\* name.lower().endswith((".html", ".htm")).
IsMarkupName(name) ==
    \/ EndsWith(Lower(name), <<".", "h", "t", "m", "l">>)
    \/ EndsWith(Lower(name), <<".", "h", "t", "m">>)

\* The roots os.walk(path) visits: path and every directory below it.
WalkRoots(path) ==
    {d \in Dirs : d = path \/ (Len(d) > Len(path) /\ SubSeq(d, 1, Len(path) + 1) = path \o <<"/">>)}

\* The filenames os.walk reports for one root.
Filenames(root, fs) == {Basename(f) : f \in {g \in fs : Dirname(g) = root}}

RECURSIVE WalkFiles(_, _)
\* The inner loops of gather_files over the roots of a walk.
WalkFiles(roots, fs) ==
    IF roots = <<>> THEN <<>>
    ELSE LET root == Head(roots)
             names == SetToSeq(Filenames(root, fs))
             found == SelectSeq(names, IsMarkupName)
         IN  [i \in 1..Len(found) |-> PathJoin(root, found[i])] \o WalkFiles(Tail(roots), fs)

RECURSIVE CollectFiles(_, _)
\* The loop of gather_files over the paths, before sorting.
CollectFiles(paths, fs) ==
    IF paths = <<>> THEN <<>>
    ELSE LET path == Head(paths)
             here == IF path \in Dirs THEN WalkFiles(SetToSeq(WalkRoots(path)), fs)
                     ELSE IF path \in fs THEN <<path>>
                     ELSE <<>>
         IN  here \o CollectFiles(Tail(paths), fs)

gather_files(paths, fs) == Sorted(CollectFiles(paths, fs))

\* The "Skipping non-existent path" messages of gather_files.
SkipMessages(paths, fs) ==
    LET missing == SelectSeq(paths, LAMBDA p : p \notin Dirs /\ p \notin fs)
    IN  [i \in 1..Len(missing) |-> [msg |-> "skip_path", arg |-> missing[i]]]

\* ----------------------------------------------------- document normalizer
\* The last lines of clean_html: every line of the extracted text stripped,
\* blank lines dropped, the rest joined with newlines.
RECURSIVE JoinLines(_)
JoinLines(lines) ==
    IF lines = <<>> THEN <<>>
    ELSE IF Len(lines) = 1 THEN lines[1]
    ELSE lines[1] \o <<"\n">> \o JoinLines(Tail(lines))

clean_text(raw) ==
    LET lines == ReSplit(raw, <<"\n">>, <<>>)
        stripped == [i \in 1..Len(lines) |-> Strip(lines[i])]
    IN  JoinLines(SelectSeq(stripped, LAMBDA l : l # <<>>))

\* A missing element or attribute of the parsed document.
None == <<"None">>

\* soup.title and soup.title.string / a tag's content attribute: truthy.
Truthy(v) == v # None /\ v # <<>>

\* A faulty variant: the time element is read after the published-time meta-property
\* and overrides it.
extract_metadata_time_last(soup) ==
    LET m0 == <<>>
        m1 == IF Truthy(soup.title) THEN ("title" :> Strip(soup.title)) @@ m0 ELSE m0
        m2 == IF Truthy(soup.author_meta)
              THEN ("author" :> Strip(soup.author_meta)) @@ m1 ELSE m1
        m3 == IF "author" \notin DOMAIN m2 /\ soup.author_class # None
              THEN ("author" :> Strip(soup.author_class)) @@ m2 ELSE m2
        m4 == IF Truthy(soup.date_meta)
              THEN ("date" :> Strip(soup.date_meta)) @@ m3 ELSE m3
        m5 == IF soup.has_time
              THEN ("date" :> Strip(IF soup.time_datetime # None THEN soup.time_datetime
                                    ELSE soup.time_text)) @@ m4
              ELSE m4
    IN  m5

\* extract_metadata(soup), assignment by assignment.
extract_metadata(soup) ==
    LET m0 == <<>>
        m1 == IF Truthy(soup.title) THEN ("title" :> Strip(soup.title)) @@ m0 ELSE m0
        m2 == IF Truthy(soup.author_meta)
              THEN ("author" :> Strip(soup.author_meta)) @@ m1 ELSE m1
        m3 == IF "author" \notin DOMAIN m2 /\ soup.author_class # None
              THEN ("author" :> Strip(soup.author_class)) @@ m2 ELSE m2
        m4 == IF soup.has_time
              THEN ("date" :> Strip(IF soup.time_datetime # None THEN soup.time_datetime
                                    ELSE soup.time_text)) @@ m3
              ELSE m3
        m5 == IF Truthy(soup.date_meta)
              THEN ("date" :> Strip(soup.date_meta)) @@ m4 ELSE m4
    IN  m5

\* metadata["filename"] = os.path.basename(file_path); source_url is None.
file_metadata(soup, file_path) ==
    ("filename" :> Basename(file_path)) @@ extract_metadata(soup)

\* A faulty variant: chunks are numbered from 1.
entry_from_one(chunk, metadata, idx) ==
    [content |-> chunk, metadata |-> ("chunk" :> (idx + 1)) @@ metadata]

\* The entry process_file writes for chunk idx (0-based).
entry(chunk, metadata, idx) ==
    [content |-> chunk, metadata |-> ("chunk" :> idx) @@ metadata]

\* A faulty variant: main goes on without checking the list.
NoFilesUnchecked(found) == FALSE

\* if not files: (main).
NoFiles(found) == found = <<>>

\* A faulty variant: process_file goes on without checking the text.
NoTextUnchecked(cleaned) == FALSE

\* if not text: (process_file).
NoText(cleaned) == cleaned = <<>>

\* The parsed documents of the model: each element or attribute present or not.
AllSoups ==
    {sp \in [title : {None, <<" ", "T">>},
             author_meta : {None, <<>>, <<"A", " ">>},
             author_class : {None, <<"C", "\n">>},
             has_time : BOOLEAN,
             time_datetime : {None, <<>>, <<"D">>},
             time_text : {None, <<" ", "X">>},
             date_meta : {None, <<>>, <<"M">>}] :
        /\ sp.has_time => sp.time_text # None
        /\ ~sp.has_time => (sp.time_datetime = None /\ sp.time_text = None)}

BareSoup ==
    [title |-> None, author_meta |-> None, author_class |-> None, has_time |-> FALSE,
     time_datetime |-> None, time_text |-> None, date_meta |-> None]

RawAlphabet == {"a", " ", "\n"}
Raws == StringsUpTo(RawAlphabet, MaxRawLen)

RunConfigs == [size : 1..MaxRunChunk, overlap : 0..MaxRunChunk]

RECURSIVE SeqsUpTo(_, _)
SeqsUpTo(S, n) ==
    IF n = 0 THEN {<<>>}
    ELSE LET shorter == SeqsUpTo(S, n - 1)
         IN  shorter \cup {Append(q, x) : q \in shorter, x \in S}

\* --input takes one or more paths.
ArgLists == SeqsUpTo(ArgUniverse, MaxArgs) \ {<<>>}

\* The paths given to a whole run: a directory, a file, a missing path.
RunArgLists == SeqsUpTo({P_ds, F_g, P_x}, MaxArgs) \ {<<>>}

\* The destination file holds a line of an earlier run.
OldOutput == <<entry(<<"o">>, "filename" :> <<"o">>, 0)>>

\* ------------------------------------------------------------------ state
VARIABLES
    pc,        \* where main is
    paths,     \* args.input
    fs,        \* the files that exist
    cfg,       \* args.chunk_size, args.chunk_overlap
    profiles,  \* the parsed documents the files of the corpus can hold
    dest,      \* the lines of the file args.output
    opened,    \* out_f is open
    files,     \* the list gather_files returned
    fi,        \* 1-based index in files of the file the loop is at
    raw,       \* the text of the file being processed
    soup,      \* its parsed document
    text,      \* its cleaned text
    metadata,  \* its metadata
    chunks,    \* its chunks
    ci,        \* the number of its chunks written
    seen,      \* the documents chunked so far: [fi, text, metadata]
    log        \* what was printed

VARIABLES s_pc, s_text, s_cfg, s_chunks

mvars == <<pc, paths, fs, cfg, profiles, dest, opened, files, fi, raw, soup, text,
           metadata, chunks, ci, seen, log>>
svars == <<s_pc, s_text, s_cfg, s_chunks>>
vars == <<mvars, svars>>

\* The run's variables before main starts, the inputs apart.
MainIdle ==
    /\ dest = OldOutput
    /\ opened = FALSE
    /\ files = <<>>
    /\ fi = 1
    /\ raw = <<>>
    /\ soup = BareSoup
    /\ text = <<>>
    /\ metadata = <<>>
    /\ chunks = <<>>
    /\ ci = 0
    /\ seen = <<>>
    /\ log = <<>>

SplitIdle ==
    /\ s_pc = "idle"
    /\ s_text = <<>>
    /\ s_cfg = [size |-> 1, overlap |-> 0]
    /\ s_chunks = <<>>

\* A run of main on a corpus of at most MaxDocs documents without metadata,
\* in the full tree or in one whose directories hold no markup file.
Init ==
    /\ pc = "gather"
    /\ fs \in {FileUniverse, {F_c, F_g}}
    /\ paths \in {a \in RunArgLists : Len(gather_files(a, fs)) <= MaxDocs}
    /\ cfg \in RunConfigs
    /\ profiles = {BareSoup}
    /\ MainIdle
    /\ SplitIdle

\* A run of main on one document, with any of the parsed documents.
MetaInit ==
    /\ pc = "gather"
    /\ fs = FileUniverse
    /\ paths \in {<<F_a>>, <<P_ds>>, <<P_x>>}
    /\ cfg \in {c \in RunConfigs : c.size > c.overlap}
    /\ profiles = AllSoups
    /\ MainIdle
    /\ SplitIdle

\* gather_files on any paths over any set of existing files.
GatherInit ==
    /\ pc = "gather"
    /\ fs \in SUBSET FileUniverse
    /\ paths \in ArgLists
    /\ cfg = [size |-> 1, overlap |-> 0]
    /\ profiles = {BareSoup}
    /\ MainIdle
    /\ SplitIdle

\* split_text on any text under any valid configuration.
SplitInit ==
    /\ s_pc = "call"
    /\ s_text \in StringsUpTo(Alphabet, MaxTextLen)
    /\ s_cfg \in ValidConfigs
    /\ s_chunks = <<>>
    /\ pc = "idle"
    /\ fs = {}
    /\ paths = <<>>
    /\ cfg = [size |-> 1, overlap |-> 0]
    /\ profiles = {BareSoup}
    /\ MainIdle

\* --------------------------------------------------------------- actions
Say(msg, arg) == Append(log, [msg |-> msg, arg |-> arg])

\* files = gather_files(args.input)
GatherFiles ==
    /\ pc = "gather"
    /\ files' = gather_files(paths, fs)
    /\ log' = log \o SkipMessages(paths, fs)
    /\ pc' = "check"
    /\ UNCHANGED <<paths, fs, cfg, profiles, dest, opened, fi, raw, soup, text, metadata,
                   chunks, ci, seen, svars>>

\* if not files: print("No input files found."); return
NoInputFiles ==
    /\ pc = "check"
    /\ NoFiles(files)
    /\ log' = Say("no_input", <<>>)
    /\ pc' = "no_files"
    /\ UNCHANGED <<paths, fs, cfg, profiles, dest, opened, files, fi, raw, soup, text,
                   metadata, chunks, ci, seen, svars>>

\* text_splitter = RecursiveCharacterTextSplitter(...): the constructor raises
\* ValueError out of main when it rejects the configuration.
BuildSplitter ==
    /\ pc = "check"
    /\ ~NoFiles(files)
    /\ pc' = IF SplitterRejects(cfg) THEN "config_error" ELSE "open"
    /\ UNCHANGED <<paths, fs, cfg, profiles, dest, opened, files, fi, raw, soup, text,
                   metadata, chunks, ci, seen, log, svars>>

\* with open(args.output, "w", encoding="utf-8") as out_f:
OpenOutput ==
    /\ pc = "open"
    /\ dest' = <<>>
    /\ opened' = TRUE
    /\ fi' = 1
    /\ pc' = "loop"
    /\ UNCHANGED <<paths, fs, cfg, profiles, files, raw, soup, text, metadata, chunks, ci,
                   seen, log, svars>>

\* for file_path in tqdm(files): process_file(file_path, ...)
NextFile ==
    /\ pc = "loop"
    /\ fi <= Len(files)
    /\ pc' = "read"
    /\ UNCHANGED <<paths, fs, cfg, profiles, dest, opened, files, fi, raw, soup, text,
                   metadata, chunks, ci, seen, log, svars>>

\* The loop is over: the file is closed and "Done." printed.
Finish ==
    /\ pc = "loop"
    /\ fi > Len(files)
    /\ opened' = FALSE
    /\ log' = Say("done", <<>>)
    /\ pc' = "done"
    /\ UNCHANGED <<paths, fs, cfg, profiles, dest, files, fi, raw, soup, text, metadata,
                   chunks, ci, seen, svars>>

\* open/read raises: the except clause prints a warning and returns.
ReadFails ==
    /\ pc = "read"
    /\ log' = Say("read_warning", files[fi])
    /\ fi' = fi + 1
    /\ pc' = "loop"
    /\ UNCHANGED <<paths, fs, cfg, profiles, dest, opened, files, raw, soup, text, metadata,
                   chunks, ci, seen, svars>>

\* raw = f.read()
ReadFile ==
    /\ pc = "read"
    /\ raw' \in Raws
    /\ pc' = "clean"
    /\ UNCHANGED <<paths, fs, cfg, profiles, dest, opened, files, fi, soup, text, metadata,
                   chunks, ci, seen, log, svars>>

\* text, soup = clean_html(raw) with text left
CleanHtml ==
    /\ pc = "clean"
    /\ ~NoText(clean_text(raw))
    /\ text' = clean_text(raw)
    /\ soup' \in profiles
    /\ raw' = <<>>
    /\ pc' = "extract"
    /\ UNCHANGED <<paths, fs, cfg, profiles, dest, opened, files, fi, metadata, chunks, ci,
                   seen, log, svars>>

\* text, soup = clean_html(raw); if not text: print note; return
EmptyContent ==
    /\ pc = "clean"
    /\ NoText(clean_text(raw))
    /\ log' = Say("no_content", files[fi])
    /\ raw' = <<>>
    /\ fi' = fi + 1
    /\ pc' = "loop"
    /\ UNCHANGED <<paths, fs, cfg, profiles, dest, opened, files, soup, text, metadata,
                   chunks, ci, seen, svars>>

\* metadata = extract_metadata(soup); ...; chunks = splitter.split_text(text)
ExtractAndSplit ==
    /\ pc = "extract"
    /\ metadata' = file_metadata(soup, files[fi])
    /\ chunks' = split_text(text, cfg)
    /\ ci' = 0
    /\ seen' = Append(seen, [fi |-> fi, text |-> text, metadata |-> metadata'])
    /\ pc' = "write"
    /\ UNCHANGED <<paths, fs, cfg, profiles, dest, opened, files, fi, raw, soup, text, log,
                   svars>>

\* output_handle.write(json.dumps(entry) + "\n") for idx = ci
WriteEntry ==
    /\ pc = "write"
    /\ ci < Len(chunks)
    /\ dest' = Append(dest, entry(chunks[ci + 1], metadata, ci))
    /\ ci' = ci + 1
    /\ UNCHANGED <<pc, paths, fs, cfg, profiles, opened, files, fi, raw, soup, text,
                   metadata, chunks, seen, log, svars>>

\* write raises (OSError): nothing catches it in process_file or main, the
\* with statement closes the file and the run ends with a traceback.
WriteFails ==
    /\ pc = "write"
    /\ ci < Len(chunks)
    /\ opened' = FALSE
    /\ pc' = "aborted"
    /\ UNCHANGED <<paths, fs, cfg, profiles, dest, files, fi, raw, soup, text, metadata,
                   chunks, ci, seen, log, svars>>

\* process_file returns after the last chunk.
EndFile ==
    /\ pc = "write"
    /\ ci = Len(chunks)
    /\ fi' = fi + 1
    /\ soup' = BareSoup
    /\ text' = <<>>
    /\ metadata' = <<>>
    /\ chunks' = <<>>
    /\ ci' = 0
    /\ pc' = "loop"
    /\ UNCHANGED <<paths, fs, cfg, profiles, dest, opened, files, raw, seen, log, svars>>

Next ==
    \/ GatherFiles
    \/ NoInputFiles
    \/ BuildSplitter
    \/ OpenOutput
    \/ NextFile
    \/ Finish
    \/ ReadFails
    \/ ReadFile
    \/ CleanHtml
    \/ EmptyContent
    \/ ExtractAndSplit
    \/ WriteEntry
    \/ WriteFails
    \/ EndFile

Spec == Init /\ [][Next]_vars

MetaSpec == MetaInit /\ [][Next]_vars

GatherNext == GatherFiles

GatherSpec == GatherInit /\ [][GatherNext]_vars

CallSplitText ==
    /\ s_pc = "call"
    /\ s_chunks' = split_text(s_text, s_cfg)
    /\ s_pc' = "returned"
    /\ UNCHANGED <<s_text, s_cfg, mvars>>

SplitNext == CallSplitText

SplitSpec == SplitInit /\ [][SplitNext]_vars

\* ------------------------------------------------- properties of the splitter
NoWhitespace(s) == \A i \in 1..Len(s) : s[i] \notin Whitespace

\* The text contains none of the non-empty separators.
NoSeparator(s) == \A i \in 1..Len(s) : s[i] \notin {" ", "\n"}

RECURSIVE Windows(_, _, _)
\* The raw-length cut of t from position pos: windows of c.size characters,
\* each starting c.size - c.overlap after the previous one, the last one
\* ending t.
Windows(t, pos, c) ==
    IF Len(t) = 0 THEN <<>>
    ELSE IF pos + c.size - 1 >= Len(t) THEN <<SubSeq(t, pos, Len(t))>>
    ELSE <<SubSeq(t, pos, pos + c.size - 1)>> \o Windows(t, pos + (c.size - c.overlap), c)

\* What the splitter makes of the windows: with chunk_size 1 every character
\* is a chunk of its own; otherwise each window is stripped and dropped when
\* nothing is left.
Trimmed(ws, c) ==
    IF c.size = 1 THEN ws
    ELSE SelectSeq([i \in 1..Len(ws) |-> Strip(ws[i])], LAMBDA w : w # <<>>)

\* The ways to take from chunk c the part that follows a leading part it
\* repeats from the end of prev.
Remainders(prev, c) ==
    {SubSeq(c, k + 1, Len(c)) : k \in {j \in 0..Len(c) :
        j <= Len(prev) /\ SubSeq(c, 1, j) = SubSeq(prev, Len(prev) - j + 1, Len(prev))}}

RECURSIVE Reconstructions(_, _)
\* The texts obtained from the chunks cs[1..n] by concatenating the non-overlapping
\* portions.
Reconstructions(cs, n) ==
    IF n = 0 THEN {<<>>}
    ELSE IF n = 1 THEN {cs[1]}
    ELSE {r \o t : r \in Reconstructions(cs, n - 1),
                   t \in Remainders(cs[n - 1], cs[n])}

RECURSIVE WhitespaceDeleted(_, _)
\* r is t with some whitespace characters deleted and nothing else changed.
WhitespaceDeleted(r, t) ==
    IF t = <<>> THEN r = <<>>
    ELSE \/ r # <<>> /\ Head(r) = Head(t) /\ WhitespaceDeleted(Tail(r), Tail(t))
         \/ Head(t) \in Whitespace /\ WhitespaceDeleted(r, Tail(t))

Returned == s_pc = "returned"

Range(q) == {q[i] : i \in 1..Len(q)}

IsPrefix(a, b) == Len(a) <= Len(b) /\ SubSeq(b, 1, Len(a)) = a

IsSortedSeq(q) == \A i \in 1..(Len(q) - 1) : ~StrLess(q[i + 1], q[i])

\* The output stream holds the records of this run.
Writing == opened \/ pc \in {"done", "aborted"}

\* The records of one chunked document: one per chunk, numbered from 0 in
\* text order.
RecordsOf(doc) ==
    LET cs == split_text(doc.text, cfg)
    IN  [k \in 1..Len(cs) |->
            [content |-> cs[k], metadata |-> ("chunk" :> (k - 1)) @@ doc.metadata]]

RECURSIVE RecordsUpTo(_)
\* The records of the first n chunked documents, document after document.
RecordsUpTo(n) == IF n = 0 THEN <<>> ELSE RecordsUpTo(n - 1) \o RecordsOf(seen[n])

\* The stream while the last chunked document is being written: the earlier
\* documents whole, then its first ci records.
StreamNow ==
    IF pc \in {"write", "aborted"}
    THEN RecordsUpTo(Len(seen) - 1) \o SubSeq(RecordsOf(seen[Len(seen)]), 1, ci)
    ELSE RecordsUpTo(Len(seen))

\* C2 (as stated): a run whose chunk_overlap >= chunk_size ends with a
\* configuration error: it reads no document, opens and writes nothing, and
\* never ends any other way, whatever the input paths resolve to.
C2_InvalidConfigRejected ==
    (cfg.overlap >= cfg.size) => pc \in {"gather", "check", "config_error"}

\* C3 (as stated): only a configuration error aborts a run; a failure at a
\* per-document step never does.
C3_FailureIsolated == pc # "aborted"

C4_Stream ==
    /\ pc # "gather" => IsSortedSeq(files)
    /\ \A j \in 1..Len(seen) :
           /\ seen[j].metadata["filename"] = Basename(files[seen[j].fi])
           /\ j > 1 => seen[j - 1].fi < seen[j].fi
    /\ Writing => dest = StreamNow

\* C4: at every point of a run the output stream is the records of the
\* chunked documents in the sorted order of the file list, each document's
\* records whole and together, numbered 0..N-1 in chunk order, the document
\* being written contributing its first records; a step never changes the
\* records written, it only appends.
C4_OrderedAppendOnlyStream ==
    /\ []C4_Stream
    /\ [][opened => IsPrefix(dest, dest')]_vars

C4_Witness ==
    /\ pc = "write"
    /\ Len(seen) = 2
    /\ ci = 2
    /\ Len(dest) >= 3
    /\ paths[1] = F_g

C6_NoEmptyRecord ==
    /\ split_text(<<>>, cfg) = <<>>
    /\ \A i \in 1..Len(dest) : dest[i].content # <<>>

\* C6: split_text of the empty text returns no chunk and no record has an
\* empty content; process_file on a document whose cleaned text is empty
\* prints its note, leaves the stream as it is and returns to the loop, which
\* goes on to the next file.
C6_EmptyTextNoRecord ==
    /\ []C6_NoEmptyRecord
    /\ [][(pc = "clean" /\ clean_text(raw) = <<>>) =>
              /\ dest' = dest
              /\ opened' = opened
              /\ seen' = seen
              /\ log' = Append(log, [msg |-> "no_content", arg |-> files[fi]])
              /\ fi' = fi + 1
              /\ pc' = "loop"]_vars

C6_Witness ==
    /\ pc = "write"
    /\ fi = 2
    /\ ci = 1
    /\ Len(dest) = 1
    /\ Len(log) = 1
    /\ log[1].msg = "no_content"

\* C7: a run that discovers no input file prints its message and ends there:
\* no document is processed, the destination file is never opened and keeps
\* the content it had.
C7_NoFilesNoOutput ==
    (pc # "gather" /\ files = <<>>) =>
        /\ pc \in {"check", "no_files"}
        /\ dest = OldOutput
        /\ ~opened
        /\ seen = <<>>
        /\ fi = 1
        /\ pc = "no_files" =>
               /\ log[Len(log)] = [msg |-> "no_input", arg |-> <<>>]
               /\ ~ENABLED Next

C7_Witness ==
    /\ pc = "no_files"
    /\ P_ds \in Range(paths)
    /\ P_x \in Range(paths)
    /\ dest # <<>>

\* The files of the tree whose names end in .html or .htm, whatever the case.
MarkupFiles == {F_a, F_B, F_e}

\* f is below the directory p, at any depth.
Under(f, p) == Len(f) > Len(p) + 1 /\ SubSeq(f, 1, Len(p) + 1) = p \o <<"/">>

\* C8: gather_files returns a sorted list holding exactly the supplied paths
\* that are existing files and the markup files found at any depth under a
\* supplied directory; a path that does not exist is reported, adds no file
\* and does not stop the paths after it.
C8_GatherFiles ==
    pc = "check" =>
        /\ IsSortedSeq(files)
        /\ Range(files) =
               {p \in Range(paths) : p \in fs}
               \cup {f \in fs \cap MarkupFiles : \E p \in Range(paths) \cap Dirs : Under(f, p)}
        /\ {m.arg : m \in Range(log)} = {p \in Range(paths) : p \notin fs /\ p \notin Dirs}

C8_Witness ==
    /\ pc = "check"
    /\ paths = <<P_x, P_d>>
    /\ fs = FileUniverse
    /\ files = <<F_B, F_a, F_e>>

\* The metadata the document soup of the file file_path is to carry: each key
\* from the first source of its priority list that is there.
ExpectedMetadata(sp, file_path) ==
    LET keys == {"filename"}
                \cup (IF Truthy(sp.title) THEN {"title"} ELSE {})
                \cup (IF Truthy(sp.author_meta) \/ sp.author_class # None
                      THEN {"author"} ELSE {})
                \cup (IF Truthy(sp.date_meta) \/ sp.has_time THEN {"date"} ELSE {})
    IN  [k \in keys |->
            CASE k = "filename" -> Basename(file_path)
              [] k = "title" -> Strip(sp.title)
              [] k = "author" -> IF Truthy(sp.author_meta) THEN Strip(sp.author_meta)
                                 ELSE Strip(sp.author_class)
              [] k = "date" -> IF Truthy(sp.date_meta) THEN Strip(sp.date_meta)
                               ELSE IF sp.time_datetime # None THEN Strip(sp.time_datetime)
                               ELSE Strip(sp.time_text)]

\* C9: every record's metadata has filename and chunk, and title, author and
\* date only when the document has them: author from the author meta-field,
\* else from the class-marked element; date from the published-time
\* meta-property, else the time element's datetime attribute, else its text;
\* the records of one document differ in chunk only.
C9_Metadata ==
    /\ Writing =>
           \A i \in 1..Len(dest) :
               /\ {"filename", "chunk"} \subseteq DOMAIN dest[i].metadata
               /\ DOMAIN dest[i].metadata \subseteq
                      {"filename", "chunk", "title", "author", "date"}
    /\ pc \in {"write", "aborted"} =>
           \A k \in 1..ci :
               LET m == dest[Len(dest) - ci + k].metadata
               IN  /\ m["chunk"] = k - 1
                   /\ [key \in DOMAIN m \ {"chunk"} |-> m[key]]
                          = ExpectedMetadata(soup, files[fi])

C9_Witness ==
    /\ pc = "write"
    /\ ci = 2
    /\ soup.title = None
    /\ soup.author_meta = <<>>
    /\ soup.author_class # None
    /\ soup.has_time
    /\ soup.time_datetime = None
    /\ soup.date_meta = <<>>
    /\ DOMAIN dest[2].metadata = {"filename", "chunk", "author", "date"}

====
